---- MODULE Spec2Model ----
(***************************************************************************)
(* Model of the job-log viewer of labpeep (src/ui/components/log_viewer.rs)*)
(*                                                                         *)
(* Three specifications share the module:                                  *)
(*   SpecText   - strip_gitlab_prefixes and process_log_line applied to    *)
(*                log lines drawn from a bounded set of character strings; *)
(*   SpecLayout - centered_rect applied to bounded percentages and areas;  *)
(*   SpecView   - render, driven by the application state it reads.        *)
(*                                                                         *)
(* A string is a sequence of characters; a character is a one-element      *)
(* TLA+ string, or a name for a character that is not printable ASCII.     *)
(***************************************************************************)
EXTENDS Integers, Sequences, FiniteSets, TLC

VARIABLES
    \* ---- SpecText
    pc,          \* "input" | "stripped" | "restripped" | "processed"
    line,        \* the raw log line handed to the functions
    mode,        \* TimestampDisplayMode handed to process_log_line
    stripped,    \* strip_gitlab_prefixes(line)
    restripped,  \* strip_gitlab_prefixes(strip_gitlab_prefixes(line))
    out,         \* process_log_line(line, mode)
    \* ---- SpecLayout
    lpc,             \* "input" | "done"
    percent_x,       \* centered_rect's arguments
    percent_y,
    r,
    overflow_checks, \* the build: are u16 overflows checked (debug) or wrapped
    rect,            \* centered_rect's result
    \* ---- SpecView: the fields of App that render reads, and what it draws
    area,                  \* the Rect handed to render
    log_content,           \* Option<String>, as the lines content.lines() yields
    timestamp_mode,
    log_scroll_offset,
    search_query,
    search_results,
    current_search_result,
    is_searching,
    frame                  \* what the last render drew, NoFrame before it

textVars == <<pc, line, mode, stripped, restripped, out>>
layoutVars == <<lpc, percent_x, percent_y, r, overflow_checks, rect>>
appVars == <<area, log_content, timestamp_mode, log_scroll_offset, search_query,
             search_results, current_search_result, is_searching>>
viewVars == <<appVars, frame>>
vars == <<textVars, layoutVars, viewVars>>

-----------------------------------------------------------------------------
(* Characters *)

NUL == "NUL"      \* U+0000, one byte in UTF-8
TAB == "TAB"      \* U+0009, one byte
EACUTE == "U00E9" \* U+00E9, two bytes in UTF-8
EURO == "U20AC"   \* U+20AC, three bytes in UTF-8

\* The value that stands for a Rust panic (a failed slice index, an
\* arithmetic overflow in a checked build): no string holds this element.
Panic == <<"!panic">>

\* No value yet (Option::None, or a result not computed so far).
None == <<"!none">>

Digits == {"0", "1", "2", "3", "4", "5", "6", "7", "8", "9"}

\* char::len_utf8
Utf8Len(c) == IF c = EACUTE THEN 2 ELSE IF c = EURO THEN 3 ELSE 1

\* str::len: the length in bytes
RECURSIVE ByteLen(_)
ByteLen(s) == IF s = <<>> THEN 0 ELSE Utf8Len(Head(s)) + ByteLen(Tail(s))

\* &s[n..]: the suffix from byte offset n; panics when n is beyond the end or
\* falls inside a multi-byte character.
RECURSIVE ByteSliceFrom(_, _)
ByteSliceFrom(s, n) ==
    IF n = 0 THEN s
    ELSE IF s = <<>> THEN Panic
    ELSE IF Utf8Len(Head(s)) > n THEN Panic
    ELSE ByteSliceFrom(Tail(s), n - Utf8Len(Head(s)))

\* str::starts_with
StartsWith(s, p) == Len(s) >= Len(p) /\ SubSeq(s, 1, Len(p)) = p

SectionStart == <<"s","e","c","t","i","o","n","_","s","t","a","r","t",":">>
SectionEnd == <<"s","e","c","t","i","o","n","_","e","n","d",":">>

\* matches!(third_char, Some('E') | Some('O') | Some('0'..='9') |
\*                      Some('A'..='F') | Some('a'..='f'))
IsControlCode(c) ==
    c \in {"E", "O"} \cup Digits \cup {"A", "B", "C", "D", "E", "F"}
          \cup {"a", "b", "c", "d", "e", "f"}


\* A faulty StripPrefix: the "00" branch drops the test of the third
\* character.
StripPrefixAnyThird(result) ==
    IF StartsWith(result, <<NUL>>) /\ ByteLen(result) >= 3
    THEN ByteSliceFrom(result, 3)
    ELSE IF StartsWith(result, <<"0", "0">>) /\ ByteLen(result) >= 3
    THEN ByteSliceFrom(result, 3)
    ELSE result

\* Lines 60-68: the null-byte prefix, or "00" and a control code, is cut off
\* by a slice at byte offset 3.
StripPrefix(result) ==
    IF StartsWith(result, <<NUL>>) /\ ByteLen(result) >= 3
    THEN ByteSliceFrom(result, 3)
    ELSE IF StartsWith(result, <<"0", "0">>) /\ ByteLen(result) >= 3
    THEN IF Len(result) >= 3 /\ IsControlCode(result[3])
         THEN ByteSliceFrom(result, 3)
         ELSE result
    ELSE result

\* Lines 70-74: is the line a section marker.
IsSectionMarker(result) ==
    StartsWith(result, SectionStart) \/ StartsWith(result, SectionEnd)

\* A faulty StripGitlabPrefixes: the section markers are looked for
\* before the prefix is cut off, not after.
StripGitlabPrefixesMarkerFirst(l) ==
    IF IsSectionMarker(l) THEN <<>> ELSE StripPrefix(l)

\* A faulty StripGitlabPrefixes: section_end is forgotten.
StripGitlabPrefixesStartOnly(l) ==
    LET result == StripPrefix(l)
    IN  IF result = Panic THEN Panic
        ELSE IF StartsWith(result, SectionStart) THEN <<>>
        ELSE result

\* strip_gitlab_prefixes
StripGitlabPrefixes(l) ==
    LET result == StripPrefix(l)
    IN  IF result = Panic THEN Panic
        ELSE IF IsSectionMarker(result) THEN <<>>
        ELSE result

-----------------------------------------------------------------------------
(* The regular expression of process_log_line, line 18:                    *)
(*   ^(\d{4}-\d{2}-\d{2})T(\d{2}:\d{2}:\d{2})(?:\.\d+)?                     *)
(*    (?:Z|[+-]\d{2}:\d{2})?\s+                                            *)

\* \d and \s over the characters of the model
IsDigit(c) == c \in Digits
IsSpace(c) == c \in {" ", TAB}

\* The character at index i, "" past the end.
At(s, i) == IF i >= 1 /\ i <= Len(s) THEN s[i] ELSE ""

\* "d" stands for \d, every other entry for itself.
StampShape == <<"d","d","d","d","-","d","d","-","d","d","T",
                "d","d",":","d","d",":","d","d">>

StampLen == Len(StampShape)

\* (\d{4}-\d{2}-\d{2})T(\d{2}:\d{2}:\d{2}) matches at the start of s
MatchesStamp(s) ==
    /\ Len(s) >= StampLen
    /\ \A i \in 1..StampLen :
          IF StampShape[i] = "d" THEN IsDigit(s[i]) ELSE s[i] = StampShape[i]

\* The last index of the run of digits that starts right after index p.
RECURSIVE DigitRunEnd(_, _)
DigitRunEnd(s, p) == IF IsDigit(At(s, p + 1)) THEN DigitRunEnd(s, p + 1) ELSE p

\* The last index of the run of whitespace that starts right after index p.
RECURSIVE SpaceRunEnd(_, _)
SpaceRunEnd(s, p) == IF IsSpace(At(s, p + 1)) THEN SpaceRunEnd(s, p + 1) ELSE p

\* (?:\.\d+)? after index p: the index the greedy match ends at
FractionEnd(s, p) ==
    IF At(s, p + 1) = "." /\ IsDigit(At(s, p + 2)) THEN DigitRunEnd(s, p + 1) ELSE p

\* (?:Z|[+-]\d{2}:\d{2})? after index p
ZoneEnd(s, p) ==
    IF At(s, p + 1) = "Z" THEN p + 1
    ELSE IF /\ At(s, p + 1) \in {"+", "-"}
            /\ IsDigit(At(s, p + 2)) /\ IsDigit(At(s, p + 3))
            /\ At(s, p + 4) = ":"
            /\ IsDigit(At(s, p + 5)) /\ IsDigit(At(s, p + 6))
    THEN p + 6
    ELSE p

\* A faulty MatchEnd: \s in place of \s+, one whitespace character is
\* consumed.
MatchEndOneSpace(s) ==
    IF ~MatchesStamp(s) THEN 0
    ELSE LET z == ZoneEnd(s, FractionEnd(s, StampLen))
         IN  IF IsSpace(At(s, z + 1)) THEN z + 1 ELSE 0

\* caps.get(0).end(): the index the whole match ends at, 0 when the
\* expression does not match. Each optional group is decided by the
\* characters that follow, so the greedy choice is the only match.
MatchEnd(s) ==
    IF ~MatchesStamp(s) THEN 0
    ELSE LET z == ZoneEnd(s, FractionEnd(s, StampLen))
             w == SpaceRunEnd(s, z)
         IN  IF w > z THEN w ELSE 0

\* &caps[1] and &caps[2]
DateOf(s) == SubSeq(s, 1, 10)
TimeOf(s) == SubSeq(s, 12, 19)

\* process_log_line
ProcessLogLine(l, m) ==
    LET stripped_line == StripGitlabPrefixes(l)
        e == MatchEnd(stripped_line)
        rest == SubSeq(stripped_line, e + 1, Len(stripped_line))
    IN  IF stripped_line = Panic THEN Panic
        ELSE IF e = 0 THEN stripped_line
        ELSE CASE m = "Hidden" -> rest
               [] m = "DateOnly" -> DateOf(stripped_line) \o <<" ">> \o rest
               [] m = "Full" ->
                    DateOf(stripped_line) \o <<" ">> \o TimeOf(stripped_line)
                        \o <<" ">> \o rest

Modes == {"Hidden", "DateOnly", "Full"}

-----------------------------------------------------------------------------
(* SpecText: the lines the functions are applied to.  A line is a free     *)
(* head of at most MaxHead characters, then one of the middles, then one   *)
(* of the tails.                                                           *)

MaxHead == 2

HeadChars == {NUL, "0", "E", "g", EACUTE, EURO}

Heads == UNION {[1..k -> HeadChars] : k \in 0..MaxHead}

Stamp == <<"2","0","2","4","-","0","1","-","1","5","T","1","0",":","3","0",":","4","5">>
Fraction == <<".","1","2","3">>
Offset == <<"+","0","0",":","0","0">>
Hello == <<"h","e","l","l","o">>

Middles ==
    { <<>>,
      <<"0", "0", "O">>,
      SectionStart,
      SectionEnd,
      Stamp,
      Stamp \o Fraction,
      Stamp \o <<"Z">>,
      Stamp \o Fraction \o <<"Z">>,
      Stamp \o Offset,
      Stamp \o <<".">>,
      SubSeq(Stamp, 1, 10) }

Tails ==
    { <<>>,
      Hello,
      <<" ">>,
      <<" ">> \o Hello,
      <<" ", " ">> \o Hello,
      <<TAB>> \o Hello,
      <<" ">> \o SectionEnd }

Lines == {h \o m \o t : h \in Heads, m \in Middles, t \in Tails}

\* strip_gitlab_prefixes(line)
Strip ==
    /\ pc = "input"
    /\ stripped' = StripGitlabPrefixes(line)
    /\ pc' = "stripped"
    /\ UNCHANGED <<line, mode, restripped, out, layoutVars, viewVars>>

\* strip_gitlab_prefixes applied to a line it returned
StripAgain ==
    /\ pc = "stripped"
    /\ stripped # Panic
    /\ restripped' = StripGitlabPrefixes(stripped)
    /\ pc' = "restripped"
    /\ UNCHANGED <<line, mode, stripped, out, layoutVars, viewVars>>

\* process_log_line(line, m)
Process(m) ==
    /\ pc = "input"
    /\ mode' = m
    /\ out' = ProcessLogLine(line, m)
    /\ pc' = "processed"
    /\ UNCHANGED <<line, stripped, restripped, layoutVars, viewVars>>

NextText == Strip \/ StripAgain \/ \E m \in Modes : Process(m)

-----------------------------------------------------------------------------
(* Layout: centered_rect, lines 80-98.  Layout::split is the library's; a  *)
(* Percentage band is modelled by its two proportional boundaries, each    *)
(* rounded to the nearest cell and kept inside the area.                   *)

Min(a, b) == IF a <= b THEN a ELSE b

\* The number of values of a u16
U16Values == 65536

\* A Rect that stands for "centered_rect panicked"
NoRect == [x |-> 0 - 1, y |-> 0 - 1, width |-> 0 - 1, height |-> 0 - 1]

\* A faulty Margin: the margin is not halved.
MarginNotHalved(percent, checks) ==
    IF percent <= 100 THEN 100 - percent
    ELSE IF checks THEN 0 - 1
    ELSE U16Values + 100 - percent

\* (100 - percent) / 2 in u16, lines 84, 86, 93, 95: below zero the
\* subtraction panics in a build that checks overflows (-1 here) and wraps
\* in one that does not.
Margin(percent, checks) ==
    IF percent <= 100 THEN (100 - percent) \div 2
    ELSE IF checks THEN 0 - 1
    ELSE (U16Values + 100 - percent) \div 2

\* pct percent of length, rounded to the nearest cell, inside the area
Boundary(pct, length) == Min(length, (pct * length + 50) \div 100)

\* The middle one of the three bands Percentage(margin), Percentage(percent),
\* Percentage(margin) of a side that starts at start and is length long.
MiddleBand(start, length, margin, percent) ==
    LET b1 == Boundary(margin, length)
        b2 == Boundary(margin + percent, length)
    IN  [pos |-> start + b1, size |-> b2 - b1]

\* centered_rect
CenteredRect(px, py, container, checks) ==
    LET my == Margin(py, checks)
        mx == Margin(px, checks)
        v == MiddleBand(container.y, container.height, my, py)
        h == MiddleBand(container.x, container.width, mx, px)
    IN  IF my < 0 \/ mx < 0 THEN NoRect
        ELSE [x |-> h.pos, y |-> v.pos, width |-> h.size, height |-> v.size]

-----------------------------------------------------------------------------
(* SpecLayout: centered_rect applied to bounded arguments.                 *)

MaxPercent == 103

Square100 == [x |-> 0, y |-> 0, width |-> 100, height |-> 100]

Containers ==
    { Square100,
      [x |-> 0, y |-> 0, width |-> 80, height |-> 24],
      [x |-> 3, y |-> 2, width |-> 50, height |-> 21],
      [x |-> 0, y |-> 0, width |-> 0, height |-> 0] }

\* centered_rect(percent_x, percent_y, r)
CallCenteredRect ==
    /\ lpc = "input"
    /\ rect' = CenteredRect(percent_x, percent_y, r, overflow_checks)
    /\ lpc' = "done"
    /\ UNCHANGED <<percent_x, percent_y, r, overflow_checks, textVars, viewVars>>

NextLayout == CallCenteredRect

-----------------------------------------------------------------------------
(* render, lines 100-249.  The frame is what render hands to the terminal: *)
(* the area, the lines of the paragraph and the parts of the title.  The   *)
(* job name in the title and the styles are left out.                      *)

Foo == <<"f","o","o">>
LogLine == <<"l","o","g">>
EmptyLog == <<"(","e","m","p","t","y"," ","l","o","g",")">>

\* Option<String>::None for log_content, and the content of a log
NoContent == [present |-> FALSE, lines |-> <<>>]
Content(ls) == [present |-> TRUE, lines |-> ls]

NoFrame ==
    [kind |-> "none", log_area |-> NoRect, total_lines |-> 0,
     content_height |-> 0, scroll_offset |-> 0, max_offset |-> 0,
     range |-> <<>>, visible |-> <<>>, scroll_indicator |-> <<>>,
     timestamp_indicator |-> "", search_indicator |-> <<>>,
     search_bar |-> FALSE]

\* ansi_to_tui::IntoText::into_text and lines 133-144 for a line that holds
\* no escape sequence: the line of the same text (the empty line for "").
AnsiLine(text) == text

\* Lines 125-147: every line of the content, processed.
ProcessedLines(content, m) ==
    [i \in 1..Len(content) |-> AnsiLine(ProcessLogLine(content[i], m))]

\* u16/usize saturating_sub
SaturatingSub(a, b) == IF a > b THEN a - b ELSE 0

\* Line 150
ContentHeight(log_area) == SaturatingSub(log_area.height, 2)

\* Line 152
MaxOffset(total_lines, content_height) == SaturatingSub(total_lines, content_height)

\* A faulty ScrollOffset: the stored offset is trusted.
ScrollOffsetUnclamped(offset, max_offset) == offset

\* Line 153
ScrollOffset(offset, max_offset) == Min(offset, max_offset)

\* Lines 157-158: start and end of the slice
VisibleRange(scroll_offset, content_height, total_lines) ==
    <<scroll_offset, Min(scroll_offset + content_height, total_lines)>>

\* lines[start..end] panics when start > end or end > len
SliceOk(range, total_lines) == range[1] <= range[2] /\ range[2] <= total_lines

\* A faulty VisibleLines: the placeholder is shown for a log that fits
\* the viewport, not for an empty one.
VisibleLinesPlaceholderWhenShort(lines, range, content_height) ==
    IF Len(lines) > content_height
    THEN SubSeq(lines, range[1] + 1, range[2])
    ELSE <<EmptyLog>>

\* Lines 156-162
VisibleLines(lines, range, content_height) ==
    IF Len(lines) > 0
    THEN SubSeq(lines, range[1] + 1, range[2])
    ELSE <<EmptyLog>>

\* A faulty ScrollIndicator: shown from total_lines = content_height on.
ScrollIndicatorOffByOne(total_lines, content_height, scroll_offset, max_offset) ==
    IF total_lines >= content_height
    THEN <<scroll_offset + 1, max_offset + 1>>
    ELSE <<>>

\* Lines 164-172: the pair of " [p/m] ", <<>> for the empty string
ScrollIndicator(total_lines, content_height, scroll_offset, max_offset) ==
    IF total_lines > content_height
    THEN <<scroll_offset + 1, max_offset + 1>>
    ELSE <<>>

\* Lines 174-178
TimestampIndicator(m) ==
    CASE m = "Hidden" -> "[Timestamps: Hidden]"
      [] m = "DateOnly" -> "[Timestamps: Date]"
      [] m = "Full" -> "[Timestamps: Full]"

\* app.current_search_result as render reads it: the index, 0 when none
CurrentIndex(current) == IF current = <<>> THEN 0 ELSE current[1]

\* A faulty SearchIndicator: the index is shown 0-based.
SearchIndicatorZeroBased(results, current, query, searching) ==
    IF results # <<>>
    THEN <<"Match", CurrentIndex(current), Len(results)>>
    ELSE IF query # <<>> /\ ~searching THEN <<"No matches">>
    ELSE <<>>

\* Lines 181-191: <<"Match", k, n>> for " [Match k/n]"
SearchIndicator(results, current, query, searching) ==
    IF results # <<>>
    THEN <<"Match", CurrentIndex(current) + 1, Len(results)>>
    ELSE IF query # <<>> /\ ~searching THEN <<"No matches">>
    ELSE <<>>

\* render: the frame it draws for the application state
RenderFrame ==
    LET log_area == CenteredRect(90, 90, area, overflow_checks)
        lines == ProcessedLines(log_content.lines, timestamp_mode)
        content_height == ContentHeight(log_area)
        total_lines == Len(lines)
        max_offset == MaxOffset(total_lines, content_height)
        scroll_offset == ScrollOffset(log_scroll_offset, max_offset)
        range == VisibleRange(scroll_offset, content_height, total_lines)
    IN  IF log_area = NoRect THEN [NoFrame EXCEPT !.kind = "panic in centered_rect"]
        ELSE IF ~log_content.present
        THEN [NoFrame EXCEPT !.kind = "block", !.log_area = log_area]
        ELSE IF \E i \in 1..total_lines : lines[i] = Panic
        THEN [NoFrame EXCEPT !.kind = "panic in process_log_line",
                             !.log_area = log_area]
        ELSE IF total_lines > 0 /\ ~SliceOk(range, total_lines)
        THEN [NoFrame EXCEPT !.kind = "panic in slice", !.log_area = log_area]
        ELSE [kind |-> "log",
              log_area |-> log_area,
              total_lines |-> total_lines,
              content_height |-> content_height,
              scroll_offset |-> scroll_offset,
              max_offset |-> max_offset,
              range |-> IF total_lines > 0 THEN range ELSE <<>>,
              visible |-> VisibleLines(lines, range, content_height),
              scroll_indicator |->
                  ScrollIndicator(total_lines, content_height, scroll_offset,
                                  max_offset),
              timestamp_indicator |-> TimestampIndicator(timestamp_mode),
              search_indicator |->
                  SearchIndicator(search_results, current_search_result,
                                  search_query, is_searching),
              search_bar |-> is_searching]

Render ==
    /\ frame' = RenderFrame
    /\ UNCHANGED <<appVars, overflow_checks, textVars, lpc, percent_x, percent_y,
                   r, rect>>

-----------------------------------------------------------------------------
(* The application state render reads is kept by the application (App and  *)
(* the event handler), whose code is outside these sources; its operations *)
(* follow the description of the search engine and of the view state.      *)

\* text holds q as a substring
Contains(text, q) ==
    \E i \in 0..(Len(text) - Len(q)) : SubSeq(text, i + 1, i + Len(q)) = q

RECURSIVE MatchesFrom(_, _, _)
MatchesFrom(lines, q, i) ==
    IF i > Len(lines) THEN <<>>
    ELSE (IF Contains(lines[i], q) THEN <<i - 1>> ELSE <<>>)
            \o MatchesFrom(lines, q, i + 1)

\* search(lines, query): the 0-based indices of the lines that hold the
\* query, in ascending order; none for the empty query
Search(lines, q) == IF q = <<>> THEN <<>> ELSE MatchesFrom(lines, q, 1)

\* The matches of the query in the processed lines of the content
SearchResults(content, m, q) ==
    IF content.present THEN Search(ProcessedLines(content.lines, m), q) ELSE <<>>

\* The current index after the matches were computed anew
FirstMatch(results) == IF results = <<>> THEN <<>> ELSE <<0>>

\* advance(matches, current_index, direction), with wraparound
Advance(results, current, direction) ==
    IF results = <<>> THEN <<>>
    ELSE IF direction = "next"
    THEN <<(CurrentIndex(current) + 1) % Len(results)>>
    ELSE <<(CurrentIndex(current) + Len(results) - 1) % Len(results)>>

MaxLines == 3
MaxAreaHeight == 5
MaxScroll == 3

LineTexts == {Foo, Stamp \o <<" ">> \o Hello}

BigLog == [i \in 1..100 |-> LogLine]

\* A log of one line on which strip_gitlab_prefixes panics
PoisonLog == << <<NUL, EURO>> >>

Contents ==
    {Content(ls) : ls \in UNION {[1..k -> LineTexts] : k \in 0..MaxLines}}
        \cup {Content(BigLog), Content(PoisonLog)}

Areas ==
    {[x |-> 0, y |-> 0, width |-> 80, height |-> h] : h \in (0..MaxAreaHeight) \cup {24}}

Offsets == (0..MaxScroll) \cup {500}

Queries == {<<>>, Foo, <<"2","0","2","4">>}

NextMode(m) ==
    CASE m = "Hidden" -> "DateOnly" [] m = "DateOnly" -> "Full" [] m = "Full" -> "Hidden"

\* A log is opened in the viewer.
OpenLog(c) ==
    /\ log_content' = c
    /\ log_scroll_offset' = 0
    /\ search_query' = <<>>
    /\ search_results' = <<>>
    /\ current_search_result' = <<>>
    /\ is_searching' = FALSE
    /\ frame' = NoFrame
    /\ UNCHANGED <<area, timestamp_mode, overflow_checks, textVars, lpc,
                   percent_x, percent_y, r, rect>>

\* The terminal is resized.
Resize(a) ==
    /\ area' = a
    /\ frame' = NoFrame
    /\ UNCHANGED <<log_content, timestamp_mode, log_scroll_offset, search_query,
                   search_results, current_search_result, is_searching,
                   overflow_checks, textVars, lpc, percent_x, percent_y, r, rect>>

\* The stored offset is set; render is handed whatever was stored.
ScrollTo(o) ==
    /\ log_scroll_offset' = o
    /\ frame' = NoFrame
    /\ UNCHANGED <<area, log_content, timestamp_mode, search_query,
                   search_results, current_search_result, is_searching,
                   overflow_checks, textVars, lpc, percent_x, percent_y, r, rect>>

\* 't': the next timestamp mode; the processed lines change, so the matches
\* are computed anew.
ToggleTimestamps ==
    LET m == NextMode(timestamp_mode)
        res == SearchResults(log_content, m, search_query)
    IN  /\ timestamp_mode' = m
        /\ search_results' = res
        /\ current_search_result' = FirstMatch(res)
        /\ frame' = NoFrame
        /\ UNCHANGED <<area, log_content, log_scroll_offset, search_query,
                       is_searching, overflow_checks, textVars, lpc, percent_x,
                       percent_y, r, rect>>

\* '/': the search bar opens.
StartSearch ==
    /\ log_content.present
    /\ ~is_searching
    /\ is_searching' = TRUE
    /\ frame' = NoFrame
    /\ UNCHANGED <<area, log_content, timestamp_mode, log_scroll_offset,
                   search_query, search_results, current_search_result,
                   overflow_checks, textVars, lpc, percent_x, percent_y, r, rect>>

\* Enter: the query is searched for.
SubmitSearch(q) ==
    LET res == SearchResults(log_content, timestamp_mode, q)
    IN  /\ is_searching
        /\ search_query' = q
        /\ search_results' = res
        /\ current_search_result' = FirstMatch(res)
        /\ log_scroll_offset' = IF res = <<>> THEN log_scroll_offset ELSE res[1]
        /\ is_searching' = FALSE
        /\ frame' = NoFrame
        /\ UNCHANGED <<area, log_content, timestamp_mode, overflow_checks,
                       textVars, lpc, percent_x, percent_y, r, rect>>

\* 'n' and 'N': the next and the previous match, scrolled into view.
Navigate(direction) ==
    LET cur == Advance(search_results, current_search_result, direction)
    IN  /\ ~is_searching
        /\ search_results # <<>>
        /\ current_search_result' = cur
        /\ log_scroll_offset' = search_results[cur[1] + 1]
        /\ frame' = NoFrame
        /\ UNCHANGED <<area, log_content, timestamp_mode, search_query,
                       search_results, is_searching, overflow_checks, textVars,
                       lpc, percent_x, percent_y, r, rect>>

NextView ==
    \/ Render
    \/ \E c \in Contents : OpenLog(c)
    \/ \E a \in Areas : Resize(a)
    \/ \E o \in Offsets : ScrollTo(o)
    \/ ToggleTimestamps
    \/ StartSearch
    \/ \E q \in Queries : SubmitSearch(q)
    \/ \E d \in {"next", "prev"} : Navigate(d)

-----------------------------------------------------------------------------
(* The three specifications.  Each starts the variables of the other two   *)
(* at rest and never changes them.                                         *)

TextAtRest ==
    /\ pc = "input" /\ line = <<>> /\ mode = "Hidden"
    /\ stripped = None /\ restripped = None /\ out = None

LayoutAtRest ==
    /\ lpc = "input" /\ percent_x = 90 /\ percent_y = 90 /\ r = Square100
    /\ overflow_checks = TRUE /\ rect = NoRect

ViewAtRest ==
    /\ area = [x |-> 0, y |-> 0, width |-> 80, height |-> 24]
    /\ log_content = NoContent
    /\ timestamp_mode = "Full"
    /\ log_scroll_offset = 0
    /\ search_query = <<>>
    /\ search_results = <<>>
    /\ current_search_result = <<>>
    /\ is_searching = FALSE
    /\ frame = NoFrame

InitText ==
    /\ pc = "input"
    /\ line \in Lines
    /\ mode = "Hidden"
    /\ stripped = None
    /\ restripped = None
    /\ out = None
    /\ LayoutAtRest
    /\ ViewAtRest

InitLayout ==
    /\ lpc = "input"
    /\ percent_x \in 0..MaxPercent
    /\ percent_y \in 0..MaxPercent
    /\ r \in Containers
    /\ overflow_checks \in BOOLEAN
    /\ rect = NoRect
    /\ TextAtRest
    /\ ViewAtRest

InitView == TextAtRest /\ LayoutAtRest /\ ViewAtRest

SpecText == InitText /\ [][NextText]_vars

SpecLayout == InitLayout /\ [][NextLayout]_vars

SpecView == InitView /\ [][NextView]_vars

Init == InitText \/ InitLayout \/ InitView

Next == NextText \/ NextLayout \/ NextView

Spec == Init /\ [][Next]_vars

-----------------------------------------------------------------------------
(* What the claims about the text functions speak of, stated over the      *)
(* characters of a line and not through the functions above.               *)

\* t is a timestamp YYYY-MM-DDTHH:MM:SS, an optional fraction of f - 1
\* digits, an optional Z or +-HH:MM, and nothing else.
IsStampText(t) ==
    /\ Len(t) >= 19
    /\ \A i \in {1, 2, 3, 4, 6, 7, 9, 10, 12, 13, 15, 16, 18, 19} : t[i] \in Digits
    /\ t[5] = "-" /\ t[8] = "-" /\ t[11] = "T" /\ t[14] = ":" /\ t[17] = ":"
    /\ \E f \in 0..(Len(t) - 19) :
          /\ f # 1
          /\ f >= 2 => (t[20] = "." /\ \A i \in 21..(19 + f) : t[i] \in Digits)
          /\ LET z == SubSeq(t, 20 + f, Len(t))
             IN  \/ z = <<>>
                 \/ z = <<"Z">>
                 \/ /\ Len(z) = 6
                    /\ z[1] \in {"+", "-"}
                    /\ z[2] \in Digits /\ z[3] \in Digits
                    /\ z[4] = ":"
                    /\ z[5] \in Digits /\ z[6] \in Digits

\* s is a timestamp of k characters, then w >= 1 whitespace characters, then
\* a remainder.
SplitsAt(s, k, w) ==
    /\ w >= 1
    /\ k + w <= Len(s)
    /\ IsStampText(SubSeq(s, 1, k))
    /\ \A i \in (k + 1)..(k + w) : s[i] \in {" ", TAB}

\* s starts with a timestamp followed by whitespace
StartsWithStampAndSpace(s) == \E k \in 19..Len(s) : SplitsAt(s, k, 1)

\* What the three modes are to return for the date d, the time t and the
\* remainder rem.
Formatted(m, d, t, rem) ==
    CASE m = "Hidden" -> rem
      [] m = "DateOnly" -> d \o <<" ">> \o rem
      [] m = "Full" -> d \o <<" ">> \o t \o <<" ">> \o rem

\* The line starts with NUL and has the three bytes the slice needs.
HasNulPrefix(s) == Len(s) >= 1 /\ s[1] = NUL /\ ByteLen(s) >= 3

\* The line starts with "00" and one of E, O, a digit, A-F, a-f.
HasZeroPrefix(s) ==
    /\ Len(s) >= 3
    /\ s[1] = "0" /\ s[2] = "0"
    /\ s[3] \in {"E", "O", "A", "B", "C", "D", "F", "a", "b", "c", "d", "e", "f"}
                \cup Digits

\* The line begins with section_start: or section_end:
BeginsWithMarker(s) ==
    \/ Len(s) >= 14 /\ SubSeq(s, 1, 14) = SectionStart
    \/ Len(s) >= 12 /\ SubSeq(s, 1, 12) = SectionEnd

-----------------------------------------------------------------------------
(* Claims about the text functions, checked under SpecText.                *)

\* C2: strip_gitlab_prefixes is total: for every line it returns a string and
\* never fails on a slice index, and every line shorter than 3 bytes is
\* returned unchanged.
C2_StripIsTotal ==
    pc = "stripped" =>
        /\ stripped # Panic
        /\ ByteLen(line) < 3 => stripped = line

\* C3: when the normalized line is a timestamp, a run of one or more
\* whitespace characters and a remainder R, process_log_line returns R in
\* Hidden mode, "<date> " R in DateOnly mode and "<date> <time> " R in Full
\* mode; the fraction and the timezone are not in the output.
C3_TimestampModes ==
    pc = "processed" =>
        LET n == StripGitlabPrefixes(line)
        IN  n # Panic =>
              \A k \in 19..Len(n) : \A w \in 1..Len(n) :
                 (SplitsAt(n, k, w) /\ At(n, k + w + 1) \notin {" ", TAB}) =>
                    out = Formatted(mode, SubSeq(n, 1, 10), SubSeq(n, 12, 19),
                                    SubSeq(n, k + w + 1, Len(n)))

\* C3, the example of the claim: "2024-01-15T10:30:45.123Z hello" in Full mode
\* gives "2024-01-15 10:30:45 hello".
C3_Witness ==
    /\ pc = "processed"
    /\ mode = "Full"
    /\ line = Stamp \o Fraction \o <<"Z", " ">> \o Hello
    /\ out = SubSeq(Stamp, 1, 10) \o <<" ">> \o SubSeq(Stamp, 12, 19)
                \o <<" ">> \o Hello

\* C4 as claimed: a line that starts neither with a control prefix nor with a
\* timestamp and whitespace is returned unchanged in every mode.  The control
\* prefix is read as widely as the code reads it (NUL and any two bytes; "00"
\* and E, O, a digit or a hexadecimal letter).
C4_IdentityAsClaimed ==
    (/\ pc = "processed"
     /\ ~HasNulPrefix(line)
     /\ ~HasZeroPrefix(line)
     /\ ~StartsWithStampAndSpace(line)) => out = line

\* C4 amended: a line that does not begin with a section marker, nor with NUL
\* when it is 3 bytes or longer, nor with "00" and one of E, O, a digit, A-F,
\* a-f, nor with a timestamp and whitespace, is returned unchanged in every
\* mode; so is a line that ends right after its timestamp.
C4_Identity ==
    (/\ pc = "processed"
     /\ ~BeginsWithMarker(line)
     /\ ~HasNulPrefix(line)
     /\ ~HasZeroPrefix(line)
     /\ ~StartsWithStampAndSpace(line)) => out = line

\* C4: a line that is only a timestamp, with no whitespace after it, comes
\* back unchanged.
C4_Witness ==
    /\ pc = "processed"
    /\ mode = "DateOnly"
    /\ line = Stamp \o Fraction \o <<"Z">>
    /\ out = line

\* C5 as claimed: stripping a stripped line changes nothing.
C5_IdempotentAsClaimed ==
    pc = "restripped" => restripped = stripped

\* C5 amended: strip_gitlab_prefixes removes one prefix; stripping its result
\* again changes nothing when that result does not itself begin with a
\* control prefix (NUL and two more bytes, or "00" and a control code).
C5_IdempotentWithoutSecondPrefix ==
    (/\ pc = "restripped"
     /\ ~HasNulPrefix(stripped)
     /\ ~HasZeroPrefix(stripped)) => restripped = stripped

\* C5: a prefix was cut off, text is left, and the second pass keeps it.
C5_Witness ==
    /\ pc = "restripped"
    /\ HasZeroPrefix(line)
    /\ stripped = SubSeq(line, 4, Len(line))
    /\ stripped # <<>>
    /\ restripped = stripped

\* C9: a line that begins with section_start: or section_end: is replaced by
\* the empty string, and process_log_line returns the empty string for it in
\* every mode.
C9_MarkersAreBlanked ==
    BeginsWithMarker(line) =>
        /\ pc = "stripped" => stripped = <<>>
        /\ pc = "processed" => out = <<>>

\* C9: a section_end line with text after the marker was processed.
C9_Witness ==
    /\ pc = "processed"
    /\ mode = "Full"
    /\ line = SectionEnd \o Hello
    /\ out = <<>>

-----------------------------------------------------------------------------
(* Claims about centered_rect, checked under SpecLayout.                   *)

\* a is within d of b
Within(a, b, d) == a - b <= d /\ b - a <= d

\* C10: centered_rect(90, 90, Rect{0, 0, 100, 100}) is 89 to 90 percent of the
\* container wide and high, and its center is within 1 cell of the
\* container's; (100 - percent) / 2 does not underflow for a percentage from
\* 0 to 100.
C10_CenteredRect ==
    lpc = "done" =>
        /\ (percent_x <= 100 /\ percent_y <= 100) => rect # NoRect
        /\ (percent_x = 90 /\ percent_y = 90 /\ r = Square100) =>
              /\ 100 * rect.width >= 89 * r.width
              /\ 100 * rect.width <= 90 * r.width
              /\ 100 * rect.height >= 89 * r.height
              /\ 100 * rect.height <= 90 * r.height
              /\ Within(2 * rect.x + rect.width, 2 * r.x + r.width, 2)
              /\ Within(2 * rect.y + rect.height, 2 * r.y + r.height, 2)

\* C10: the call of the claim was made and returned the 90 by 90 rectangle at
\* (5, 5).
C10_Witness ==
    /\ lpc = "done"
    /\ percent_x = 90 /\ percent_y = 90 /\ r = Square100
    /\ rect = [x |-> 5, y |-> 5, width |-> 90, height |-> 90]

-----------------------------------------------------------------------------
(* Claims about render, checked under SpecView.  A frame is drawn from the *)
(* application state of the same state: every change of that state drops   *)
(* the frame.                                                              *)

\* The lines of the log as render shows them
ShownLines == ProcessedLines(log_content.lines, timestamp_mode)

\* max(0, total - height), min(offset, max_offset), min(start + height, total)
ClaimedMaxOffset(total, height) == IF total - height > 0 THEN total - height ELSE 0
ClaimedStart(total, height, offset) ==
    IF offset <= ClaimedMaxOffset(total, height) THEN offset
    ELSE ClaimedMaxOffset(total, height)
ClaimedEnd(total, height, offset) ==
    IF ClaimedStart(total, height, offset) + height <= total
    THEN ClaimedStart(total, height, offset) + height
    ELSE total

\* C1: for every number of lines, viewport height and stored offset render
\* shows the lines [start, end) with max_offset = max(0, total - height),
\* start = min(offset, max_offset), end = min(start + height, total); so
\* 0 <= start <= end <= total and end - start <= height, and 100 lines, height
\* 20, offset 500 give [80, 100).
C1_VisibleSlice ==
    /\ frame.kind # "panic in slice"
    /\ frame.kind = "log" =>
          LET total == Len(log_content.lines)
              height == frame.content_height
              start == ClaimedStart(total, height, log_scroll_offset)
              end == ClaimedEnd(total, height, log_scroll_offset)
          IN  /\ frame.total_lines = total
              /\ frame.scroll_offset = start
              /\ 0 <= start /\ start <= end /\ end <= total
              /\ end - start <= height
              /\ total > 0 =>
                    /\ frame.range = <<start, end>>
                    /\ frame.visible = SubSeq(ShownLines, start + 1, end)
              /\ (total = 100 /\ height = 20 /\ log_scroll_offset = 500) =>
                    frame.range = <<80, 100>>

\* C1: the example of the claim was rendered.
C1_Witness ==
    /\ frame.kind = "log"
    /\ frame.total_lines = 100
    /\ frame.content_height = 20
    /\ log_scroll_offset = 500
    /\ frame.range = <<80, 100>>
    /\ Len(frame.visible) = 20

C7_PositionIndicator ==
    frame.kind = "log" =>
        LET total == Len(log_content.lines)
            height == frame.content_height
            shown == frame.scroll_indicator # <<>>
        IN  /\ shown <=> total > height
            /\ shown =>
                  /\ frame.scroll_indicator =
                        <<ClaimedStart(total, height, log_scroll_offset) + 1,
                          ClaimedMaxOffset(total, height) + 1>>
                  /\ 1 <= frame.scroll_indicator[1]
                  /\ frame.scroll_indicator[1] <= frame.scroll_indicator[2]

\* C7: the indicator is shown for a stored offset beyond the last position.
C7_Witness ==
    /\ frame.kind = "log"
    /\ log_scroll_offset > frame.max_offset
    /\ frame.scroll_indicator = <<frame.max_offset + 1, frame.max_offset + 1>>

\* C8: a log that is present and has no line is rendered, without failure, as
\* the one line "(empty log)" for every stored offset and every height; when
\* the log has lines, the lines shown are lines of the log, not the
\* placeholder.
C8_EmptyLogPlaceholder ==
    /\ (frame.kind # "none" /\ log_content.present /\ log_content.lines = <<>>) =>
          /\ frame.kind = "log"
          /\ frame.visible = <<EmptyLog>>
    /\ (frame.kind = "log" /\ Len(log_content.lines) > 0) =>
          /\ frame.visible # <<EmptyLog>>
          /\ Len(frame.range) = 2
          /\ frame.visible = SubSeq(ShownLines, frame.range[1] + 1, frame.range[2])

\* C8: an empty log was rendered with a stale offset.
C8_Witness ==
    /\ frame.kind = "log"
    /\ log_content.present
    /\ log_content.lines = <<>>
    /\ log_scroll_offset = 500
    /\ frame.visible = <<EmptyLog>>

====
